---------------------------- MODULE Spec2Model ----------------------------
(***************************************************************************)
(* Model of organizer.py (Smart File Organizer): path validation, category *)
(* folder creation, extension classification, duplicate-name resolution,   *)
(* the move loop and the summary.                                          *)
(*                                                                         *)
(* A file name is a sequence of one-character strings, a path is a         *)
(* sequence of names relative to the target directory (<<>> is the target  *)
(* itself), and the file system is a function from the paths that exist to *)
(* their entries.  An entry's id stands for its content.                   *)
(***************************************************************************)
EXTENDS Integers, Sequences, FiniteSets, TLC

(***************************************************************************)
(* Bounds of the model.                                                    *)
(***************************************************************************)
\* Root entries of the target directory in an initial state.
MaxRootEntries == 3
\* Entries already inside category folders in an initial state.
MaxPre == 2
\* Runs of main() in succession on the same directory.
MaxRuns == 2
\* Steps of the external process in SpecRace.
MaxExt == 1
\* Characters put in front of a suffix to build a classification input.
MaxPrefix == 2
\* Successive resolve-and-create calls in SpecResolve.
MaxCreates == 11

(***************************************************************************)
(* Configuration: CATEGORIES and EXTENSION_MAP.                            *)
(***************************************************************************)
Images == <<"I", "m", "a", "g", "e", "s">>
Videos == <<"V", "i", "d", "e", "o", "s">>
PDFs == <<"P", "D", "F", "s">>
Documents == <<"D", "o", "c", "u", "m", "e", "n", "t", "s">>
Code == <<"C", "o", "d", "e">>
Others == <<"O", "t", "h", "e", "r", "s">>

\* The list of line 82, in its order.
CATEGORIES == <<Images, Videos, PDFs, Documents, Code, Others>>

CategorySet == {CATEGORIES[i] : i \in 1..Len(CATEGORIES)}

EXTENSION_MAP ==
       (<<".", "j", "p", "g">> :> Images)
    @@ (<<".", "j", "p", "e", "g">> :> Images)
    @@ (<<".", "p", "n", "g">> :> Images)
    @@ (<<".", "g", "i", "f">> :> Images)
    @@ (<<".", "b", "m", "p">> :> Images)
    @@ (<<".", "s", "v", "g">> :> Images)
    @@ (<<".", "w", "e", "b", "p">> :> Images)
    @@ (<<".", "i", "c", "o">> :> Images)
    @@ (<<".", "t", "i", "f", "f">> :> Images)
    @@ (<<".", "h", "e", "i", "c">> :> Images)
    @@ (<<".", "m", "p", "4">> :> Videos)
    @@ (<<".", "a", "v", "i">> :> Videos)
    @@ (<<".", "m", "k", "v">> :> Videos)
    @@ (<<".", "m", "o", "v">> :> Videos)
    @@ (<<".", "w", "m", "v">> :> Videos)
    @@ (<<".", "f", "l", "v">> :> Videos)
    @@ (<<".", "w", "e", "b", "m">> :> Videos)
    @@ (<<".", "p", "d", "f">> :> PDFs)
    @@ (<<".", "d", "o", "c">> :> Documents)
    @@ (<<".", "d", "o", "c", "x">> :> Documents)
    @@ (<<".", "t", "x", "t">> :> Documents)
    @@ (<<".", "r", "t", "f">> :> Documents)
    @@ (<<".", "o", "d", "t">> :> Documents)
    @@ (<<".", "x", "l", "s">> :> Documents)
    @@ (<<".", "x", "l", "s", "x">> :> Documents)
    @@ (<<".", "p", "p", "t">> :> Documents)
    @@ (<<".", "p", "p", "t", "x">> :> Documents)
    @@ (<<".", "c", "s", "v">> :> Documents)
    @@ (<<".", "p", "y">> :> Code)
    @@ (<<".", "j", "s">> :> Code)
    @@ (<<".", "t", "s">> :> Code)
    @@ (<<".", "h", "t", "m", "l">> :> Code)
    @@ (<<".", "c", "s", "s">> :> Code)
    @@ (<<".", "j", "a", "v", "a">> :> Code)
    @@ (<<".", "c">> :> Code)
    @@ (<<".", "c", "p", "p">> :> Code)
    @@ (<<".", "h">> :> Code)
    @@ (<<".", "r", "b">> :> Code)
    @@ (<<".", "g", "o">> :> Code)
    @@ (<<".", "r", "s">> :> Code)
    @@ (<<".", "p", "h", "p">> :> Code)
    @@ (<<".", "s", "w", "i", "f", "t">> :> Code)
    @@ (<<".", "k", "t">> :> Code)
    @@ (<<".", "s", "h">> :> Code)
    @@ (<<".", "j", "s", "o", "n">> :> Code)
    @@ (<<".", "x", "m", "l">> :> Code)
    @@ (<<".", "y", "a", "m", "l">> :> Code)
    @@ (<<".", "y", "m", "l">> :> Code)
    @@ (<<".", "s", "q", "l">> :> Code)
    @@ (<<".", "m", "d">> :> Code)

(***************************************************************************)
(* String helpers: str.lower, str.rfind, os.path.splitext, f"{counter}".   *)
(***************************************************************************)
UpperLetters ==
    <<"A", "B", "C", "D", "E", "F", "G", "H", "I", "J", "K", "L", "M",
      "N", "O", "P", "Q", "R", "S", "T", "U", "V", "W", "X", "Y", "Z">>

LowerLetters ==
    <<"a", "b", "c", "d", "e", "f", "g", "h", "i", "j", "k", "l", "m",
      "n", "o", "p", "q", "r", "s", "t", "u", "v", "w", "x", "y", "z">>

LowerChar(c) ==
    IF \E i \in 1..Len(UpperLetters) : UpperLetters[i] = c
    THEN LowerLetters[CHOOSE i \in 1..Len(UpperLetters) : UpperLetters[i] = c]
    ELSE c

\* str.lower() on ASCII text.
lower(s) == [i \in 1..Len(s) |-> LowerChar(s[i])]

\* str.rfind(c), 1-based; 0 when c does not occur.
RECURSIVE RFindFrom(_, _, _)
RFindFrom(s, c, i) ==
    IF i = 0 THEN 0
    ELSE IF s[i] = c THEN i
    ELSE RFindFrom(s, c, i - 1)

rfind(s, c) == RFindFrom(s, c, Len(s))

\* The loop of genericpath._splitext that skips leading dots: the first
\* character in filenameIndex .. dotIndex-1 that is not a dot makes the split.
RECURSIVE SplitScan(_, _, _)
SplitScan(p, filenameIndex, dotIndex) ==
    IF filenameIndex < dotIndex
    THEN IF p[filenameIndex] # "."
         THEN <<SubSeq(p, 1, dotIndex - 1), SubSeq(p, dotIndex, Len(p))>>
         ELSE SplitScan(p, filenameIndex + 1, dotIndex)
    ELSE <<p, <<>>>>

\* os.path.splitext (posixpath: sep "/", no altsep, extsep "."): <<root, ext>>.
splitext(p) ==
    LET sepIndex == rfind(p, "/")
        dotIndex == rfind(p, ".")
    IN  IF dotIndex > sepIndex
        THEN SplitScan(p, sepIndex + 1, dotIndex)
        ELSE <<p, <<>>>>

Digits == <<"0", "1", "2", "3", "4", "5", "6", "7", "8", "9">>

\* f"{counter}": the decimal digits of a natural number.
RECURSIVE IntToStr(_)
IntToStr(n) ==
    IF n < 10 THEN <<Digits[n + 1]>>
    ELSE IntToStr(n \div 10) \o <<Digits[(n % 10) + 1]>>

(***************************************************************************)
(* The classifier.                                                         *)
(***************************************************************************)
\* get_category with the .lower() call dropped.
get_category_no_lower(filename) ==
    LET ext == splitext(filename)[2]
    IN  IF ext \in DOMAIN EXTENSION_MAP THEN EXTENSION_MAP[ext] ELSE Others

get_category(filename) ==
    LET ext == splitext(filename)[2]
    IN  IF lower(ext) \in DOMAIN EXTENSION_MAP
        THEN EXTENSION_MAP[lower(ext)]
        ELSE Others

\* is_hidden_or_system with the test inverted away: nothing is hidden.
is_hidden_never(filename) == FALSE

is_hidden_or_system(filename) == Len(filename) > 0 /\ filename[1] = "."

(***************************************************************************)
(* The file system.  fs maps each existing path below the target to its    *)
(* entry [kind, id, mv]: kind is "file" or "dir", id stands for the        *)
(* content, and mv says how the host answers an attempt to move the entry  *)
(* out of the target directory:                                            *)
(*   "ok"      os.rename succeeds;                                         *)
(*   "denied"  os.rename and the copy fallback of shutil.move both raise   *)
(*             PermissionError (an unreadable entry the caller may not     *)
(*             unlink);                                                    *)
(*   "sticky"  os.rename raises PermissionError, the copy fallback         *)
(*             succeeds and os.unlink raises PermissionError (a readable   *)
(*             entry the caller may not unlink: another user's file in a   *)
(*             sticky directory, an immutable file);                       *)
(*   "oserror" os.rename and the fallback raise another OSError.           *)
(***************************************************************************)
VARIABLES
    target,         \* the path given on the command line: [exists, isdir, r, w, x]
    fs,             \* the tree below the target
    pc,             \* where main() is
    todo,           \* the rest of the list os.listdir(base_path) returned
    cur,            \* entry, category and dest_path of the iteration in progress
    summary,        \* organize_files' summary
    out,            \* what the run has printed
    exitStatus,     \* the process's exit status, -1 while it runs
    run,            \* which run of main() this is
    fs0,            \* history: the tree when the run started
    listing,        \* history: what os.listdir returned
    skippedHidden,  \* history: entries the hidden test skipped
    moved,          \* history: the moves that succeeded
    extern,         \* history: what the external process did (SpecRace)
    arg,            \* the file name a pure function is applied to
    label,          \* get_category's result (SpecClassify)
    returned,       \* resolve_duplicate's results, in order (SpecResolve)
    before          \* names in the folder before the last call (SpecResolve)

vars ==
    <<target, fs, pc, todo, cur, summary, out, exitStatus, run, fs0, listing,
      skippedHidden, moved, extern, arg, label, returned, before>>

progVars == <<target, fs, pc, todo, cur, summary, out, exitStatus, run, fs0,
              listing, skippedHidden, moved, extern>>

testVars == <<arg, label, returned, before>>

\* base_path, relative to itself.
base_path == <<>>

\* os.path.join(folder, name).
join(folder, name) == Append(folder, name)

\* os.path.exists and os.path.isdir below the target.
exists(f, p) == p \in DOMAIN f

isdir(f, p) == p \in DOMAIN f /\ f[p].kind = "dir"

\* The names os.listdir(d) yields.
listdir(f, d) ==
    {p[Len(p)] : p \in {q \in DOMAIN f :
                          Len(q) = Len(d) + 1 /\ SubSeq(q, 1, Len(d)) = d}}

\* f with path p bound to entry e, and f without path p.
Bind(f, p, e) == [q \in DOMAIN f \cup {p} |-> IF q = p THEN e ELSE f[q]]

Unbind(f, p) == [q \in DOMAIN f \ {p} |-> f[q]]

NoEntry == [kind |-> "none", id |-> <<>>, mv |-> "ok"]

(***************************************************************************)
(* resolve_duplicate.                                                      *)
(***************************************************************************)
\* The loop of lines 158-161 with new_name built without the extension.
RECURSIVE ResolveLoopNoExt(_, _, _, _, _, _)
ResolveLoopNoExt(f, destination_folder, name, ext, dest, counter) ==
    IF exists(f, dest)
    THEN ResolveLoopNoExt(f, destination_folder, name, ext,
             join(destination_folder, name \o <<"_">> \o IntToStr(counter)),
             counter + 1)
    ELSE dest

\* while os.path.exists(dest): new_name = f"{name}_{counter}{ext}"; ...
RECURSIVE ResolveLoop(_, _, _, _, _, _)
ResolveLoop(f, destination_folder, name, ext, dest, counter) ==
    IF exists(f, dest)
    THEN ResolveLoop(f, destination_folder, name, ext,
             join(destination_folder,
                  name \o <<"_">> \o IntToStr(counter) \o ext),
             counter + 1)
    ELSE dest

\* resolve_duplicate with the counter started at 0.
resolve_duplicate_from_zero(f, destination_folder, filename) ==
    LET dest == join(destination_folder, filename)
        sp   == splitext(filename)
    IN  IF ~exists(f, dest) THEN dest
        ELSE ResolveLoop(f, destination_folder, sp[1], sp[2], dest, 0)

\* resolve_duplicate without the existence probe.
resolve_duplicate_no_probe(f, destination_folder, filename) ==
    join(destination_folder, filename)

resolve_duplicate(f, destination_folder, filename) ==
    LET dest == join(destination_folder, filename)
        sp   == splitext(filename)
    IN  IF ~exists(f, dest) THEN dest
        ELSE ResolveLoop(f, destination_folder, sp[1], sp[2], dest, 1)

(***************************************************************************)
(* shutil.move(src, dst) on a POSIX host, for a src that is not a          *)
(* directory: [fs, exc, real_dst], the tree afterwards, the exception       *)
(* raised ("none" when it returns) and the path it wrote to.               *)
(*   - dst is a directory: the entry goes inside it, and shutil.Error (an  *)
(*     OSError) is raised when it holds that name already;                 *)
(*   - os.rename replaces an existing file at the destination;             *)
(*   - a missing src makes os.rename, then the copy fallback, raise        *)
(*     FileNotFoundError;                                                  *)
(*   - when os.rename raises any OSError the fallback copies src to the    *)
(*     destination and then unlinks src.                                   *)
(***************************************************************************)
shutil_move(f, src, dst) ==
    LET real_dst == IF isdir(f, dst) THEN join(dst, src[Len(src)]) ELSE dst
    IN  IF isdir(f, dst) /\ exists(f, real_dst)
        THEN [fs |-> f, exc |-> "OSError", real_dst |-> real_dst]
        ELSE IF ~exists(f, src)
        THEN [fs |-> f, exc |-> "OSError", real_dst |-> real_dst]
        ELSE CASE f[src].mv = "ok" ->
                    [fs |-> Bind(Unbind(f, src), real_dst, f[src]),
                     exc |-> "none", real_dst |-> real_dst]
               [] f[src].mv = "denied" ->
                    [fs |-> f, exc |-> "PermissionError",
                     real_dst |-> real_dst]
               [] f[src].mv = "sticky" ->
                    [fs |-> Bind(f, real_dst, [f[src] EXCEPT !.mv = "ok"]),
                     exc |-> "PermissionError", real_dst |-> real_dst]
               [] OTHER ->
                    [fs |-> f, exc |-> "OSError", real_dst |-> real_dst]

(***************************************************************************)
(* validate_path: "ok", or the error it prints before sys.exit(1).         *)
(***************************************************************************)
\* validate_path without the os.access check.
validate_path_no_access(t) ==
    IF ~t.exists THEN "does not exist"
    ELSE IF ~t.isdir THEN "is not a directory"
    ELSE "ok"

validate_path(t) ==
    IF ~t.exists THEN "does not exist"
    ELSE IF ~t.isdir THEN "is not a directory"
    ELSE IF ~(t.r /\ t.w) THEN "Insufficient permissions"
    ELSE "ok"

(***************************************************************************)
(* create_category_folders: os.makedirs(folder, exist_ok=True) for each    *)
(* category in order; [fs, exc].  mkdir needs write and search permission  *)
(* on the target; a failed mkdir is forgiven only when the folder can be   *)
(* seen to be a directory, and any other failure propagates out of main.   *)
(***************************************************************************)
RECURSIVE MakeDirsFrom(_, _, _)
MakeDirsFrom(t, f, i) ==
    IF i > Len(CATEGORIES) THEN [fs |-> f, exc |-> "none"]
    ELSE LET folder == join(base_path, CATEGORIES[i])
         IN  IF exists(f, folder)
             THEN IF isdir(f, folder) /\ t.x
                  THEN MakeDirsFrom(t, f, i + 1)
                  ELSE [fs |-> f,
                        exc |-> IF t.x THEN "FileExistsError"
                                       ELSE "PermissionError"]
             ELSE IF t.w /\ t.x
                  THEN MakeDirsFrom(t,
                           Bind(f, folder,
                                [kind |-> "dir", id |-> folder, mv |-> "ok"]),
                           i + 1)
                  ELSE [fs |-> f, exc |-> "PermissionError"]

create_category_folders(t, f) == MakeDirsFrom(t, f, 1)

(***************************************************************************)
(* Initial states: the target and the tree below it.                       *)
(***************************************************************************)
NameAJpg == <<"a", ".", "J", "P", "G">>
NameA1Jpg == <<"a", "_", "1", ".", "J", "P", "G">>
NameNotes == <<"n", ".", "t", "x", "t">>
NameCode == <<"m", ".", "c">>
NameNoExt == <<"z">>
NameHidden == <<".", "h">>
NameDirTxt == <<"d", ".", "t", "x", "t">>
NameHiddenDir == <<".", "g">>

File(mv) == [kind |-> "file", mv |-> mv]

Dir == [kind |-> "dir", mv |-> "ok"]

\* What each candidate root entry may be.
RootChoices(n) ==
    CASE n = NameAJpg -> {File("ok"), File("denied"), File("sticky"),
                          File("oserror")}
      [] n = NameA1Jpg -> {File("ok"), File("sticky")}
      [] n = NameNotes -> {File("ok"), File("denied")}
      [] n = NameCode -> {File("ok")}
      [] n = NameNoExt -> {File("ok")}
      [] n = NameHidden -> {File("ok")}
      [] n = NameDirTxt -> {Dir}
      [] n = NameHiddenDir -> {Dir}
      [] n = Images -> {File("ok"), Dir}
      [] OTHER -> {}

RootNames ==
    {NameAJpg, NameA1Jpg, NameNotes, NameCode, NameNoExt, NameHidden,
     NameDirTxt, NameHiddenDir, Images}

\* Entries that may already be inside a category folder: files, and one
\* directory.
PrePaths ==
    {<<Images, NameAJpg>>, <<Images, NameA1Jpg>>, <<Documents, NameNotes>>,
     <<Others, NameNoExt>>}

PreKind(p) == IF p = <<Others, NameNoExt>> THEN "dir" ELSE "file"

Attrs == UNION {RootChoices(n) : n \in RootNames}

InitialRoots ==
    UNION {{r \in [S -> Attrs] : \A n \in S : r[n] \in RootChoices(n)} :
           S \in {T \in SUBSET RootNames : Cardinality(T) <= MaxRootEntries}}

Tree(r, P) ==
    [p \in {<<n>> : n \in DOMAIN r} \cup {<<q[1]>> : q \in P} \cup P |->
        IF Len(p) = 1 /\ p[1] \in DOMAIN r
        THEN [kind |-> r[p[1]].kind, id |-> p, mv |-> r[p[1]].mv]
        ELSE IF Len(p) = 1
        THEN [kind |-> "dir", id |-> p, mv |-> "ok"]
        ELSE [kind |-> PreKind(p), id |-> p, mv |-> "ok"]]

InitialTrees ==
    {Tree(r, P) : <<r, P>> \in
        {rp \in InitialRoots
                 \X {Q \in SUBSET PrePaths : Cardinality(Q) <= MaxPre} :
            \A q \in rp[2] :
                q[1] \in DOMAIN rp[1] => rp[1][q[1]].kind = "dir"}}

EmptyTree == [p \in {} |-> NoEntry]

TargetMissing ==
    [exists |-> FALSE, isdir |-> FALSE, r |-> FALSE, w |-> FALSE, x |-> FALSE]

TargetFile ==
    [exists |-> TRUE, isdir |-> FALSE, r |-> TRUE, w |-> TRUE, x |-> FALSE]

TargetDirs ==
    {[exists |-> TRUE, isdir |-> TRUE, r |-> r, w |-> w, x |-> x] :
        r \in BOOLEAN, w \in BOOLEAN, x \in BOOLEAN}

TargetOk ==
    [exists |-> TRUE, isdir |-> TRUE, r |-> TRUE, w |-> TRUE, x |-> TRUE]

Targets == {TargetMissing, TargetFile} \cup TargetDirs

ZeroSummary == [c \in CategorySet |-> 0]

NoCur == [entry |-> <<>>, category |-> <<>>, dest_path |-> <<>>]

NoExtern == [count |-> 0, created |-> {}, removed |-> {}]

Msg(m, e) == [msg |-> m, entry |-> e]

\* The program's variables as a run of main() starts on tree f.
StartOfRun(f) ==
    /\ fs = f
    /\ fs0 = f
    /\ pc = "start"
    /\ todo = <<>>
    /\ cur = NoCur
    /\ summary = ZeroSummary
    /\ out = {}
    /\ exitStatus = -1
    /\ listing = {}
    /\ skippedHidden = 0
    /\ moved = {}

TestIdle ==
    /\ arg = <<>>
    /\ label = <<>>
    /\ returned = <<>>
    /\ before = {}

Init ==
    /\ target \in Targets
    /\ \E f \in IF target.isdir THEN InitialTrees ELSE {EmptyTree} :
           StartOfRun(f)
    /\ run = 1
    /\ extern = NoExtern
    /\ TestIdle

(***************************************************************************)
(* main(): validate_path, create_category_folders, organize_files,         *)
(* print_summary.                                                          *)
(***************************************************************************)
Terminal == {"done", "exit1", "crashed"}

\* Step 2 of main: validate_path prints its error and exits 1, or returns.
ValidatePath ==
    /\ pc = "start"
    /\ LET v == validate_path(target)
       IN  IF v = "ok"
           THEN /\ pc' = "validated"
                /\ out' = out \cup {Msg("Scanning", <<>>)}
                /\ UNCHANGED exitStatus
           ELSE /\ pc' = "exit1"
                /\ out' = out \cup {Msg(v, <<>>)}
                /\ exitStatus' = 1
    /\ UNCHANGED <<target, fs, todo, cur, summary, run, fs0, listing,
                   skippedHidden, moved, extern, testVars>>

\* Step 3 of main: an exception of os.makedirs is not caught anywhere, so
\* the interpreter prints a traceback and exits 1.
CreateCategoryFolders ==
    /\ pc = "validated"
    /\ LET res == create_category_folders(target, fs)
       IN  /\ fs' = res.fs
           /\ IF res.exc = "none"
              THEN /\ pc' = "organize"
                   /\ UNCHANGED <<out, exitStatus>>
              ELSE /\ pc' = "crashed"
                   /\ out' = out \cup {Msg(res.exc, <<>>)}
                   /\ exitStatus' = 1
    /\ UNCHANGED <<target, todo, cur, summary, run, fs0, listing,
                   skippedHidden, moved, extern, testVars>>

\* The sequences with the elements of S, each once.
RECURSIVE Perms(_)
Perms(S) ==
    IF S = {} THEN {<<>>}
    ELSE UNION {{<<e>> \o t : t \in Perms(S \ {e})} : e \in S}

RECURSIVE SeqOfSet(_)
SeqOfSet(S) ==
    IF S = {} THEN <<>>
    ELSE LET e == CHOOSE e \in S : TRUE IN <<e>> \o SeqOfSet(S \ {e})

\* The lists os.listdir(base_path) may return.  The order is the host's:
\* the entries that are not directories come in every order; the
\* directories, whose iterations change nothing, come before them.
Listings(f) ==
    LET names == listdir(f, base_path)
        dirs  == {n \in names : isdir(f, join(base_path, n))}
    IN  {SeqOfSet(dirs) \o t : t \in Perms(names \ dirs)}

\* organize_files up to the loop: the counters, then one os.listdir, which
\* needs read permission and is outside the try block.
ListDir ==
    /\ pc = "organize"
    /\ summary' = [cat \in CategorySet |-> 0]
    /\ IF target.r
       THEN /\ pc' = "loop"
            /\ listing' = listdir(fs, base_path)
            /\ todo' \in Listings(fs)
            /\ UNCHANGED <<out, exitStatus>>
       ELSE /\ pc' = "crashed"
            /\ out' = out \cup {Msg("PermissionError", <<>>)}
            /\ exitStatus' = 1
            /\ UNCHANGED <<listing, todo>>
    /\ UNCHANGED <<target, fs, cur, run, fs0, skippedHidden, moved, extern,
                   testVars>>

\* The entry of the iteration about to start.
entry == Head(todo)

\* One iteration for a directory: continue.
SkipDirectory ==
    /\ pc = "loop"
    /\ todo # <<>>
    /\ isdir(fs, join(base_path, entry))
    /\ todo' = Tail(todo)
    /\ UNCHANGED <<target, fs, pc, cur, summary, out, exitStatus, run, fs0,
                   listing, skippedHidden, moved, extern, testVars>>

\* One iteration for a hidden entry: continue.
SkipHidden ==
    /\ pc = "loop"
    /\ todo # <<>>
    /\ ~isdir(fs, join(base_path, entry))
    /\ is_hidden_or_system(entry)
    /\ todo' = Tail(todo)
    /\ skippedHidden' = skippedHidden + 1
    /\ UNCHANGED <<target, fs, pc, cur, summary, out, exitStatus, run, fs0,
                   listing, moved, extern, testVars>>

\* One iteration up to the try block: classify and pick the destination.
Resolve ==
    /\ pc = "loop"
    /\ todo # <<>>
    /\ ~isdir(fs, join(base_path, entry))
    /\ ~is_hidden_or_system(entry)
    /\ LET cat         == get_category(entry)
           dest_folder == join(base_path, cat)
       IN  cur' = [entry |-> entry, category |-> cat,
                   dest_path |-> resolve_duplicate(fs, dest_folder, entry)]
    /\ todo' = Tail(todo)
    /\ pc' = "move"
    /\ UNCHANGED <<target, fs, summary, out, exitStatus, run, fs0, listing,
                   skippedHidden, moved, extern, testVars>>

Failures == {m \in out : m.msg \in {"Permission denied", "OS error"}}

\* What a successful move is remembered by.
MoveRecord(res) ==
    [entry |-> cur.entry, category |-> cur.category, dest |-> res.real_dst,
     id |-> fs[join(base_path, cur.entry)].id,
     taken |-> listdir(fs, join(base_path, cur.category)),
     afterFailure |-> Failures # {}]

\* The try block with the count taken before the move is attempted.
MoveCountsFirst ==
    /\ pc = "move"
    /\ LET res == shutil_move(fs, join(base_path, cur.entry), cur.dest_path)
       IN  /\ fs' = res.fs
           /\ summary' = [summary EXCEPT ![cur.category] = @ + 1]
           /\ IF res.exc = "none"
              THEN /\ moved' = moved \cup {MoveRecord(res)}
                   /\ UNCHANGED out
              ELSE /\ out' = out \cup {Msg(IF res.exc = "PermissionError"
                                           THEN "Permission denied"
                                           ELSE "OS error", cur.entry)}
                   /\ UNCHANGED moved
    /\ pc' = "loop"
    /\ cur' = NoCur
    /\ UNCHANGED <<target, todo, exitStatus, run, fs0, listing,
                   skippedHidden, extern, testVars>>

\* The try block with only PermissionError handled: another OSError
\* propagates out of main.
MoveCatchesPermissionOnly ==
    /\ pc = "move"
    /\ LET res == shutil_move(fs, join(base_path, cur.entry), cur.dest_path)
       IN  /\ fs' = res.fs
           /\ IF res.exc = "none"
              THEN /\ summary' = [summary EXCEPT ![cur.category] = @ + 1]
                   /\ moved' = moved \cup {MoveRecord(res)}
                   /\ pc' = "loop"
                   /\ UNCHANGED <<out, exitStatus>>
              ELSE IF res.exc = "PermissionError"
              THEN /\ out' = out \cup {Msg("Permission denied", cur.entry)}
                   /\ pc' = "loop"
                   /\ UNCHANGED <<summary, moved, exitStatus>>
              ELSE /\ out' = out \cup {Msg(res.exc, <<>>)}
                   /\ pc' = "crashed"
                   /\ exitStatus' = 1
                   /\ UNCHANGED <<summary, moved>>
    /\ cur' = NoCur
    /\ UNCHANGED <<target, todo, run, fs0, listing, skippedHidden, extern,
                   testVars>>

\* The try block: shutil.move, then the count; PermissionError and any
\* other OSError are reported and the loop goes on.
Move ==
    /\ pc = "move"
    /\ LET res == shutil_move(fs, join(base_path, cur.entry), cur.dest_path)
       IN  /\ fs' = res.fs
           /\ IF res.exc = "none"
              THEN /\ summary' = [summary EXCEPT ![cur.category] = @ + 1]
                   /\ moved' = moved \cup {MoveRecord(res)}
                   /\ UNCHANGED out
              ELSE /\ out' = out \cup {Msg(IF res.exc = "PermissionError"
                                           THEN "Permission denied"
                                           ELSE "OS error", cur.entry)}
                   /\ UNCHANGED <<summary, moved>>
    /\ pc' = "loop"
    /\ cur' = NoCur
    /\ UNCHANGED <<target, todo, exitStatus, run, fs0, listing,
                   skippedHidden, extern, testVars>>

RECURSIVE SumOver(_, _)
SumOver(s, i) ==
    IF i > Len(CATEGORIES) THEN 0 ELSE s[CATEGORIES[i]] + SumOver(s, i + 1)

\* sum(summary.values())
Total(s) == SumOver(s, 1)

\* The loop is over: organize_files returns, print_summary prints the
\* notice or the table, main prints its last line and returns.
PrintSummary ==
    /\ pc = "loop"
    /\ todo = <<>>
    /\ out' = out \cup {Msg(IF Total(summary) = 0 THEN "already clean"
                                                  ELSE "table", <<>>),
                        Msg("Done", <<>>)}
    /\ pc' = "done"
    /\ exitStatus' = 0
    /\ UNCHANGED <<target, fs, todo, cur, summary, run, fs0, listing,
                   skippedHidden, moved, extern, testVars>>

\* The program is started again on the same directory.
Rerun ==
    /\ pc \in Terminal
    /\ run < MaxRuns
    /\ run' = run + 1
    /\ pc' = "start"
    /\ fs0' = fs
    /\ todo' = <<>>
    /\ cur' = NoCur
    /\ summary' = ZeroSummary
    /\ out' = {}
    /\ exitStatus' = -1
    /\ listing' = {}
    /\ skippedHidden' = 0
    /\ moved' = {}
    /\ UNCHANGED <<target, fs, extern, testVars>>

Next ==
    \/ ValidatePath
    \/ CreateCategoryFolders
    \/ ListDir
    \/ SkipDirectory
    \/ SkipHidden
    \/ Resolve
    \/ Move
    \/ PrintSummary
    \/ Rerun

Spec == Init /\ [][Next]_vars

(***************************************************************************)
(* An external process changing the tree while organize_files runs.        *)
(***************************************************************************)
Range(s) == {s[i] : i \in 1..Len(s)}

\* Another process removes a root file the loop has listed and not moved yet.
ExtRemove ==
    /\ pc \in {"loop", "move"}
    /\ extern.count < MaxExt
    /\ \E e \in Range(todo) \cup (IF pc = "move" THEN {cur.entry} ELSE {}) :
          /\ exists(fs, join(base_path, e))
          /\ fs[join(base_path, e)].kind = "file"
          /\ fs' = Unbind(fs, join(base_path, e))
          /\ extern' = [extern EXCEPT
                           !.count = @ + 1,
                           !.removed = @ \cup {fs[join(base_path, e)].id}]
    /\ UNCHANGED <<target, pc, todo, cur, summary, out, exitStatus, run, fs0,
                   listing, skippedHidden, moved, testVars>>

\* Another process creates a file or a directory at dest_path after
\* resolve_duplicate found it free and before shutil.move runs.
ExtCreate ==
    /\ pc = "move"
    /\ extern.count < MaxExt
    /\ ~exists(fs, cur.dest_path)
    /\ \E k \in {"file", "dir"} :
          LET id == <<<<"*">> \o IntToStr(extern.count)>> \o cur.dest_path
          IN  /\ fs' = Bind(fs, cur.dest_path,
                            [kind |-> k, id |-> id, mv |-> "ok"])
              /\ extern' = [extern EXCEPT !.count = @ + 1,
                                          !.created = @ \cup {id}]
    /\ UNCHANGED <<target, pc, todo, cur, summary, out, exitStatus, run, fs0,
                   listing, skippedHidden, moved, testVars>>

InitRace == Init /\ target = TargetOk

\* One run of main() with the external process beside it.
NextRace ==
    \/ ValidatePath
    \/ CreateCategoryFolders
    \/ ListDir
    \/ SkipDirectory
    \/ SkipHidden
    \/ Resolve
    \/ Move
    \/ PrintSummary
    \/ ExtRemove
    \/ ExtCreate

SpecRace == InitRace /\ [][NextRace]_vars

(***************************************************************************)
(* The pure functions on their own: get_category on a bounded set of file  *)
(* names, and resolve_duplicate called again and again for one name, each  *)
(* returned path being created before the next call.                       *)
(***************************************************************************)
UpperChar(c) ==
    IF \E i \in 1..Len(LowerLetters) : LowerLetters[i] = c
    THEN UpperLetters[CHOOSE i \in 1..Len(LowerLetters) : LowerLetters[i] = c]
    ELSE c

upper(s) == [i \in 1..Len(s) |-> UpperChar(s[i])]

\* s with its second character alone in upper case.
Capitalised(s) ==
    [i \in 1..Len(s) |-> IF i = 2 THEN UpperChar(s[i]) ELSE s[i]]

PrefixChars == {".", "/", "a"}

Prefixes == UNION {[1..n -> PrefixChars] : n \in 0..MaxPrefix}

Suffixes ==
    DOMAIN EXTENSION_MAP
        \cup {upper(k) : k \in DOMAIN EXTENSION_MAP}
        \cup {Capitalised(k) : k \in DOMAIN EXTENSION_MAP}
        \cup {<<>>, <<".">>, <<"c">>, <<".", "z", "i", "p">>,
              <<".", "j", "p", "g", "x">>, <<".", "p", "y", ".">>}

ClassifyInputs == {pre \o suf : pre \in Prefixes, suf \in Suffixes}

\* The program's variables at rest, at position p, on tree f.
ProgIdle(p, f) ==
    /\ target = TargetOk
    /\ fs = f
    /\ fs0 = f
    /\ pc = p
    /\ todo = <<>>
    /\ cur = NoCur
    /\ summary = ZeroSummary
    /\ out = {}
    /\ exitStatus = -1
    /\ run = 1
    /\ listing = {}
    /\ skippedHidden = 0
    /\ moved = {}
    /\ extern = NoExtern

InitClassify ==
    /\ ProgIdle("classify", EmptyTree)
    /\ arg \in ClassifyInputs
    /\ label = <<>>
    /\ returned = <<>>
    /\ before = {}

Classify ==
    /\ pc = "classify"
    /\ label' = get_category(arg)
    /\ pc' = "classified"
    /\ UNCHANGED <<target, fs, todo, cur, summary, out, exitStatus, run, fs0,
                   listing, skippedHidden, moved, extern, arg, returned,
                   before>>

SpecClassify == InitClassify /\ [][Classify]_vars

\* stem_k.ext: the name with _k put before its extension.
Numbered(name, k) ==
    splitext(name)[1] \o <<"_">> \o IntToStr(k) \o splitext(name)[2]

ResolveFolder == join(base_path, Others)

ResolveNames ==
    {NameAJpg, NameA1Jpg, NameNoExt, NameHidden, <<"a", ".">>,
     <<"a", ".", "b", ".", "c">>}

\* The destination folder holding the names of S.
FolderWith(S) ==
    [p \in {ResolveFolder} \cup {join(ResolveFolder, n) : n \in S} |->
        IF p = ResolveFolder
        THEN [kind |-> "dir", id |-> p, mv |-> "ok"]
        ELSE [kind |-> "file", id |-> p, mv |-> "ok"]]

InitResolve ==
    /\ arg \in ResolveNames
    /\ \E S \in SUBSET {arg, Numbered(arg, 1), Numbered(arg, 2),
                        Numbered(arg, 3)} :
           ProgIdle("resolve", FolderWith(S))
    /\ label = <<>>
    /\ returned = <<>>
    /\ before = {}

\* One call of resolve_duplicate, then a file created at the path returned.
ResolveAndCreate ==
    /\ pc = "resolve"
    /\ Len(returned) < MaxCreates
    /\ LET dest == resolve_duplicate(fs, ResolveFolder, arg)
       IN  /\ returned' = Append(returned, dest)
           /\ before' = listdir(fs, ResolveFolder)
           /\ fs' = Bind(fs, dest,
                         [kind |-> "file",
                          id |-> <<<<"*">> \o IntToStr(Len(returned))>>,
                          mv |-> "ok"])
    /\ UNCHANGED <<target, pc, todo, cur, summary, out, exitStatus, run, fs0,
                   listing, skippedHidden, moved, extern, arg, label>>

SpecResolve == InitResolve /\ [][ResolveAndCreate]_vars

(***************************************************************************)
(* Properties.                                                             *)
(***************************************************************************)
\* The smallest k >= 1 whose numbered name is not in the set taken.
FirstFree(name, taken) ==
    CHOOSE k \in 1..(Cardinality(taken) + 1) :
        /\ Numbered(name, k) \notin taken
        /\ \A j \in 1..(k - 1) : Numbered(name, j) \in taken

\* The name a file called name is to get in a folder holding the names taken.
ExpectedName(name, taken) ==
    IF name \notin taken THEN name ELSE Numbered(name, FirstFree(name, taken))

\* The root entries that were not directories when the run started.
RootFiles0 == {p \in DOMAIN fs0 : Len(p) = 1 /\ fs0[p].kind # "dir"}

StartsWithDot(name) == Len(name) > 0 /\ name[1] = "."

\* C1: after a run, every root entry that was not a directory, was not
\* excluded and was moved successfully is gone from the root and is in the
\* folder of its category, under its own name when that name was free in the
\* folder at the time of the move and under stem_k.ext, k the smallest free
\* number from 1, otherwise.
C1_MovedWhereClaimed ==
    pc = "done" =>
        \A m \in moved :
            LET dest == <<get_category(m.entry),
                          ExpectedName(m.entry, m.taken)>>
            IN  /\ <<m.entry>> \in RootFiles0
                /\ ~StartsWithDot(m.entry)
                /\ <<m.entry>> \notin DOMAIN fs
                /\ dest \in DOMAIN fs
                /\ fs[dest] = fs0[<<m.entry>>]
                /\ m.dest = dest

\* C1's case: a run has ended in which an entry was moved into a folder that
\* held both its name and its first numbered name.
C1_Witness ==
    /\ pc = "done"
    /\ \E m \in moved :
          /\ m.entry \in m.taken
          /\ Numbered(m.entry, 1) \in m.taken
    /\ \E m \in moved : m.entry \notin m.taken

\* C2: a failed move never aborts the loop: once the listing is taken the run
\* never crashes; an entry whose move failed is still at its place in the
\* root, unchanged, and is not counted; the counts are those of the moves
\* that succeeded; and the run ends after every listed entry was processed,
\* with the summary printed and exit status 0.
C2_FailureIsolated ==
    /\ listing # {} => pc # "crashed"
    /\ \A f \in Failures :
          /\ <<f.entry>> \in DOMAIN fs
          /\ fs[<<f.entry>>] = fs0[<<f.entry>>]
          /\ \A m \in moved : m.entry # f.entry
    /\ \A c \in CategorySet :
          summary[c] = Cardinality({m \in moved : m.category = c})
    /\ (pc \in Terminal /\ listing # {}) =>
          /\ pc = "done"
          /\ exitStatus = 0
          /\ todo = <<>>
          /\ \A e \in listing :
                \/ isdir(fs0, <<e>>) \/ e \in CategorySet
                \/ StartsWithDot(e)
                \/ \E m \in moved : m.entry = e
                \/ \E f \in Failures : f.entry = e
          /\ \E m \in out : m.msg \in {"table", "already clean"}
          /\ Msg("Done", <<>>) \in out

\* C2's case: a run has ended with status 0 in which a move failed with
\* PermissionError, another failed with another OSError, and an entry was
\* moved after a failure.
C2_Witness ==
    /\ pc = "done"
    /\ exitStatus = 0
    /\ \E f \in Failures : f.msg = "Permission denied"
    /\ \E f \in Failures : f.msg = "OS error"
    /\ \E m \in moved : m.afterFailure

\* C3: when a run ends, the sum of the counts, plus the hidden entries
\* skipped, plus the entries whose move failed, is the number of root entries
\* that were not directories before the run.
C3_Conservation ==
    pc = "done" =>
        Total(summary) + skippedHidden + Cardinality(Failures)
            = Cardinality(RootFiles0)

\* C3's case: a run has ended in which an entry was moved, one was skipped
\* as hidden and one failed to move.
C3_Witness ==
    /\ pc = "done"
    /\ Total(summary) > 0
    /\ skippedHidden > 0
    /\ Failures # {}

\* C4: the second of two runs in succession moves nothing, leaves the tree
\* as it was and returns a summary of zeros, so that the "already clean"
\* notice is printed.
C4_Idempotent ==
    (run = 2 /\ pc = "done") =>
        /\ moved = {}
        /\ fs = fs0
        /\ summary = ZeroSummary
        /\ Msg("already clean", <<>>) \in out

\* C5: resolve_duplicate returns the bare path when the name is not in the
\* folder, and otherwise the path of stem_k.ext for the smallest k >= 1 that
\* is not in the folder; the path returned did not exist, and the paths
\* returned by successive calls, each created before the next call, are
\* pairwise distinct.
C5_CollisionSafe ==
    returned # <<>> =>
        LET dest == returned[Len(returned)]
        IN  /\ dest = join(ResolveFolder, ExpectedName(arg, before))
            /\ dest[Len(dest)] \notin before
            /\ arg \notin before => dest = join(ResolveFolder, arg)
            /\ \A i, j \in 1..Len(returned) :
                  i # j => returned[i] # returned[j]

\* C5's case: the folder held the name and its numbers 1 to 9, and the call
\* returned the name numbered 10.
C5_Witness ==
    /\ returned # <<>>
    /\ arg \in before
    /\ returned[Len(returned)] = join(ResolveFolder, Numbered(arg, 10))

\* C6: whatever was inside a sub-folder before the run is still there under
\* the same name with the same content, and the content of every entry the
\* tree held before the run is still somewhere in the tree.
C6_NothingDestroyed ==
    /\ \A p \in DOMAIN fs0 :
          Len(p) >= 2 => p \in DOMAIN fs /\ fs[p] = fs0[p]
    /\ \A p \in DOMAIN fs0 :
          \E q \in DOMAIN fs : fs[q].id = fs0[p].id /\ fs[q].kind = fs0[p].kind

\* C6's case: the root file a.JPG met Images/a.JPG: it is now Images/a_1.JPG
\* and the file that was Images/a.JPG is still there.
C6_Witness ==
    /\ pc = "done"
    /\ <<NameAJpg>> \in RootFiles0
    /\ <<Images, NameAJpg>> \in DOMAIN fs0
    /\ <<Images, NameA1Jpg>> \in DOMAIN fs
    /\ fs[<<Images, NameA1Jpg>>].id = <<NameAJpg>>
    /\ fs[<<Images, NameAJpg>>].id = <<Images, NameAJpg>>

\* C7: a root entry whose name starts with a dot is never moved, it stays in
\* the root as it was, and it is in no count of the summary.
C7_HiddenUntouched ==
    /\ \A p \in DOMAIN fs0 :
          (Len(p) = 1 /\ StartsWithDot(p[1])) =>
              /\ p \in DOMAIN fs
              /\ fs[p] = fs0[p]
              /\ \A m \in moved : m.entry # p[1]
    /\ \A c \in CategorySet :
          summary[c] = Cardinality({m \in moved : m.category = c
                                                  /\ ~StartsWithDot(m.entry)})

\* C7's case: a run has ended in which a hidden file was skipped and another
\* file was moved.
C7_Witness ==
    /\ pc = "done"
    /\ <<NameHidden>> \in RootFiles0
    /\ skippedHidden > 0
    /\ moved # {}

\* The first check of validate_path that the target fails.
FirstFailure(t) ==
    IF ~t.exists THEN "does not exist"
    ELSE IF ~t.isdir THEN "is not a directory"
    ELSE "Insufficient permissions"

Invalid(t) == ~t.exists \/ ~t.isdir \/ ~t.r \/ ~t.w

\* C8: when the target does not exist, is not a directory or lacks read or
\* write access, the run goes no further than validate_path: it exits with
\* status 1 after the error of the first failed check, and the tree is
\* unchanged; the run goes on to create_category_folders only when the
\* target is valid.
C8_ValidationAbortsFirst ==
    /\ Invalid(target) =>
          /\ pc \in {"start", "exit1"}
          /\ fs = fs0
          /\ pc = "exit1" =>
                /\ exitStatus = 1
                /\ out = {Msg(FirstFailure(target), <<>>)}
    /\ pc = "exit1" => Invalid(target)

\* C8's case: the target is a directory that holds entries and may be
\* written but not read, and the run has exited with status 1.
C8_Witness ==
    /\ pc = "exit1"
    /\ exitStatus = 1
    /\ target.isdir /\ target.w /\ target.x /\ ~target.r
    /\ DOMAIN fs # {}

\* The content of entries that were in the tree when the run started or
\* that the external process created, less what that process removed.
Contents == ({fs0[p].id : p \in DOMAIN fs0} \cup extern.created) \ extern.removed

\* C9: with an external process removing a listed root file before its move,
\* or creating an entry at the chosen destination before the move, the run
\* never crashes, no content is overwritten or lost, an entry removed before
\* its move is not counted and, unless it is hidden, is reported, the counts
\* are those of the moves made, and the run ends with status 0.
C9_RaceTolerated ==
    /\ listing # {} => pc # "crashed"
    /\ \A i \in Contents : \E q \in DOMAIN fs : fs[q].id = i
    /\ Total(summary) = Cardinality(moved)
    /\ pc = "done" =>
          /\ exitStatus = 0
          /\ \A i \in extern.removed :
                /\ \A m \in moved : m.id # i
                /\ StartsWithDot(i[1]) \/ \E f \in Failures : <<f.entry>> = i

\* The lowercased text from the last "." of the name to its end, <<>> when
\* the name has no ".".
LastDotSuffix(name) ==
    LET dots == {i \in 1..Len(name) : name[i] = "."}
    IN  IF dots = {} THEN <<>>
        ELSE LET last == CHOOSE i \in dots : \A j \in dots : j <= i
             IN  lower(SubSeq(name, last, Len(name)))

\* Whether a character other than "." stands between the last "/" of the
\* name (its start when it has none) and its last ".".
HasStem(name) ==
    \E d \in 1..Len(name) :
        /\ name[d] = "."
        /\ \A j \in (d + 1)..Len(name) : name[j] \notin {".", "/"}
        /\ \E i \in 1..(d - 1) :
              /\ name[i] # "."
              /\ \A j \in i..(d - 1) : name[j] # "/"

\* C10 as stated: get_category returns the map's category for the lowercased
\* text from the last "." to the end when that is a key of the map, "Others"
\* otherwise, and so always a label of CATEGORIES.
C10_AsStated ==
    pc = "classified" =>
        /\ label \in CategorySet
        /\ label = IF LastDotSuffix(arg) \in DOMAIN EXTENSION_MAP
                   THEN EXTENSION_MAP[LastDotSuffix(arg)]
                   ELSE Others

\* C10 as amended: get_category returns the map's category for the
\* lowercased text from the last "." to the end when that is a key of the
\* map and a character other than "." comes before that "." in the last
\* path component of the name, "Others" otherwise, and so always a label of
\* CATEGORIES.
C10_Classification ==
    pc = "classified" =>
        /\ label \in CategorySet
        /\ label = IF HasStem(arg) /\ LastDotSuffix(arg) \in DOMAIN EXTENSION_MAP
                   THEN EXTENSION_MAP[LastDotSuffix(arg)]
                   ELSE Others

\* C10's case: a name that starts with a dot and ends in a key of the map,
\* with nothing but dots before that key, was classified "Others".
C10_Witness ==
    /\ pc = "classified"
    /\ StartsWithDot(arg)
    /\ LastDotSuffix(arg) \in DOMAIN EXTENSION_MAP
    /\ label = Others

=============================================================================
